---------------------------- MODULE Spec2Model ----------------------------
(***************************************************************************)
(* Model of the retention engine of liamdelahunty/pagespeed (retention.py) *)
(* and of the file names it consumes.                                      *)
(*                                                                         *)
(* A file name is a string.  A datetime is the                             *)
(* triple <<ordinal, second of day, microsecond>>, where ordinal is the    *)
(* proleptic Gregorian day number of Python's date.toordinal(); datetimes  *)
(* are ordered lexicographically, as Python orders them.                   *)
(***************************************************************************)
EXTENDS Integers, Sequences, FiniteSets, TLC

(***************************************************************************)
(* Calendar arithmetic of Python's datetime, used by strptime, strftime,   *)
(* date() and timedelta.                                                   *)
(***************************************************************************)
IsLeap(y) == (y % 4 = 0) /\ ((y % 100 # 0) \/ (y % 400 = 0))

DaysInMonth(y, m) ==
    IF m = 2 THEN (IF IsLeap(y) THEN 29 ELSE 28)
    ELSE IF m \in {4, 6, 9, 11} THEN 30 ELSE 31

DaysBeforeYear(y) ==
    (y - 1) * 365 + ((y - 1) \div 4) - ((y - 1) \div 100) + ((y - 1) \div 400)

\* the days of the year before the first of month m
DaysBeforeMonth(y, m) ==
    <<0, 31, 59, 90, 120, 151, 181, 212, 243, 273, 304, 334>>[m]
        + (IF m > 2 /\ IsLeap(y) THEN 1 ELSE 0)

\* date(y, m, d).toordinal()
Ymd2Ord(y, m, d) == DaysBeforeYear(y) + DaysBeforeMonth(y, m) + d

\* The year of an ordinal: the y with DaysBeforeYear(y) < n <= DaysBeforeYear(y + 1).
\* n \div 365 + 1 is never below the year and at most a few years above it.
RECURSIVE YearFrom(_, _)
YearFrom(n, y) == IF DaysBeforeYear(y) < n THEN y ELSE YearFrom(n, y - 1)

OrdYear(n) == YearFrom(n, (n \div 365) + 1)

\* day of the year, 1-based (tm_yday)
OrdYday(n) == n - DaysBeforeYear(OrdYear(n))

\* the month of an ordinal: (yday + 49) \div 32 is the month or the one after
OrdMonth(n) ==
    LET y     == OrdYear(n)
        guess == (OrdYday(n) + 49) \div 32
    IN  IF DaysBeforeMonth(y, guess) >= OrdYday(n) THEN guess - 1 ELSE guess

\* date.weekday(): Monday is 0
Weekday(n) == (n + 6) % 7

\* datetime comparison
DtLess(a, b) ==
    \/ a[1] < b[1]
    \/ a[1] = b[1] /\ a[2] < b[2]
    \/ a[1] = b[1] /\ a[2] = b[2] /\ a[3] < b[3]

DtGreater(a, b) == DtLess(b, a)

\* dt - timedelta(days = n)
MinusDays(dt, n) == <<dt[1] - n, dt[2], dt[3]>>

\* datetime.min = 0001-01-01 00:00:00
DatetimeMin == <<Ymd2Ord(1, 1, 1), 0, 0>>

\* The "no match" result of parse_filename: (None, None, None)
NoMatch == [slug |-> "", strategy |-> "None", timestamp |-> <<>>]

(***************************************************************************)
(* Characters and strings                                                  *)
(***************************************************************************)
\* s[i], the i-th character of a string
Char(s, i) == SubSeq(s, i, i)

\* s[i:j], the characters i..j of a string
Slice(s, i, j) == SubSeq(s, i, j)

Digits == "0123456789"

IsDigit(c) == \E i \in 1..10 : Char(Digits, i) = c

DigitVal(c) == (CHOOSE i \in 1..10 : Char(Digits, i) = c) - 1

\* int(s) of a string of digits
RECURSIVE NumVal(_)
NumVal(s) ==
    IF Len(s) = 0 THEN 0
    ELSE 10 * NumVal(Slice(s, 1, Len(s) - 1)) + DigitVal(Char(s, Len(s)))

\* the zero padded decimal of width w, as strftime prints a field
RECURSIVE Pad(_, _)
Pad(n, w) ==
    IF w = 0 THEN "" ELSE Pad(n \div 10, w - 1) \o Char(Digits, (n % 10) + 1)

ReportPrefix == "comparison-report-"

(***************************************************************************)
(* parse_filename                                                          *)
(***************************************************************************)
\* \d{4}-\d{2}-\d{2}-\d{n}: the shape of the timestamp group, n = 6 or 4
TimestampShape(s, n) ==
    /\ Len(s) = 11 + n
    /\ \A i \in 1..Len(s) :
          IF i \in {5, 8, 11} THEN Char(s, i) = "-" ELSE IsDigit(Char(s, i))

\* '$' matches at the end of the string and before a final newline
AtEnd(s) == s = "" \/ s = "\n"

\* rest matches  -(desktop|mobile)-<timestamp>\.json$  with that strategy
DebugTailMatches(rest, strategy) ==
    LET n == Len(strategy)
    IN  /\ Len(rest) >= n + 24
        /\ Slice(rest, 1, n + 2) = "-" \o strategy \o "-"
        /\ TimestampShape(Slice(rest, n + 3, n + 19), 6)
        /\ Slice(rest, n + 20, n + 24) = ".json"
        /\ AtEnd(Slice(rest, n + 25, Len(rest)))

\* rest matches  -<timestamp>\.html$
ReportTailMatches(rest) ==
    /\ Len(rest) >= 21
    /\ Char(rest, 1) = "-"
    /\ TimestampShape(Slice(rest, 2, 16), 4)
    /\ Slice(rest, 17, 21) = ".html"
    /\ AtEnd(Slice(rest, 22, Len(rest)))

\* '.' matches any character but a newline
DotStar(s) == \A i \in 1..Len(s) : Char(s, i) # "\n"

\* DEBUG_RESPONSES_RE.match(filename): the slug lengths at which the pattern
\* matches; the non-greedy group takes the least of them.
DebugSplits(filename) ==
    {k \in 0..Len(filename) :
        /\ DotStar(Slice(filename, 1, k))
        /\ \E strategy \in {"desktop", "mobile"} :
              DebugTailMatches(Slice(filename, k + 1, Len(filename)), strategy)}

\* REPORTS_RE.match(filename): the slug lengths at which the pattern matches
ReportSplits(filename) ==
    LET p == Len(ReportPrefix)
    IN  IF Len(filename) < p \/ Slice(filename, 1, p) # ReportPrefix THEN {}
        ELSE {k \in 0..(Len(filename) - p) :
                /\ DotStar(Slice(filename, p + 1, p + k))
                /\ ReportTailMatches(Slice(filename, p + k + 1, Len(filename)))}

Least(S) == CHOOSE k \in S : \A j \in S : k <= j

\* match.groupdict() of DEBUG_RESPONSES_RE
DEBUG_RESPONSES_RE(filename) ==
    LET k    == Least(DebugSplits(filename))
        rest == Slice(filename, k + 1, Len(filename))
        strategy == CHOOSE st \in {"desktop", "mobile"} : DebugTailMatches(rest, st)
        n    == Len(strategy)
    IN  [slug |-> Slice(filename, 1, k), strategy |-> strategy,
         timestamp |-> Slice(rest, n + 3, n + 19)]

\* match.groupdict() of REPORTS_RE
REPORTS_RE(filename) ==
    LET p == Len(ReportPrefix)
        k == Least(ReportSplits(filename))
    IN  [slug |-> Slice(filename, p + 1, p + k),
         timestamp |-> Slice(filename, p + k + 2, p + k + 16)]

\* A faulty variant of Strptime: every month has 31 days
StrptimeDay31(s, n) ==
    LET year   == NumVal(Slice(s, 1, 4))
        month  == NumVal(Slice(s, 6, 7))
        day    == NumVal(Slice(s, 9, 10))
        hour   == NumVal(Slice(s, 12, 13))
        minute == NumVal(Slice(s, 14, 15))
        second == IF n = 6 THEN NumVal(Slice(s, 16, 17)) ELSE 0
    IN  IF /\ year >= 1
           /\ month \in 1..12
           /\ day >= 1
           /\ day <= 31
           /\ hour <= 23
           /\ minute <= 59
           /\ second <= 59
        THEN <<Ymd2Ord(year, month, day), hour * 3600 + minute * 60 + second, 0>>
        ELSE <<>>

\* datetime.strptime(s, '%Y-%m-%d-%H%M%S') (n = 6) and
\* datetime.strptime(s, '%Y-%m-%d-%H%M') (n = 4) on a string of the regex's
\* shape: the datetime, or <<>> where Python raises ValueError.
Strptime(s, n) ==
    LET year   == NumVal(Slice(s, 1, 4))
        month  == NumVal(Slice(s, 6, 7))
        day    == NumVal(Slice(s, 9, 10))
        hour   == NumVal(Slice(s, 12, 13))
        minute == NumVal(Slice(s, 14, 15))
        second == IF n = 6 THEN NumVal(Slice(s, 16, 17)) ELSE 0
    IN  IF /\ year >= 1
           /\ month \in 1..12
           /\ day >= 1
           /\ day <= DaysInMonth(year, month)
           /\ hour <= 23
           /\ minute <= 59
           /\ second <= 59
        THEN <<Ymd2Ord(year, month, day), hour * 3600 + minute * 60 + second, 0>>
        ELSE <<>>

\* parse_filename(filename): the record of (slug, strategy, timestamp).  None
\* is "None" for the strategy and <<>> for the timestamp; the slug of the
\* no-match result is "" (the three are None together).
parse_filename(filename) ==
    IF DebugSplits(filename) # {} THEN
        LET data == DEBUG_RESPONSES_RE(filename)
            timestamp == Strptime(data.timestamp, 6)
        IN  IF timestamp # <<>>
            THEN [slug |-> data.slug, strategy |-> data.strategy, timestamp |-> timestamp]
            ELSE NoMatch
    ELSE IF ReportSplits(filename) # {} THEN
        LET data == REPORTS_RE(filename)
            timestamp == Strptime(data.timestamp, 4)
        IN  IF timestamp # <<>>
            THEN [slug |-> data.slug, strategy |-> "report", timestamp |-> timestamp]
            ELSE NoMatch
    ELSE NoMatch

(***************************************************************************)
(* File names as organise_reports.py and compare_reports.py write them     *)
(***************************************************************************)
\* sanitise_timestamp: dt_object.strftime("%Y-%m-%d-%H%M%S") of the date y-m-d
\* and the time hms = HHMMSS
FormatTimestamp(y, m, d, hms) ==
    Pad(y, 4) \o "-" \o Pad(m, 2) \o "-" \o Pad(d, 2) \o "-" \o Pad(hms, 6)

\* organise_files: f"{page_slug}-{strategy}-{timestamp_str}.json"
JsonName(page_slug, strategy, timestamp) ==
    page_slug \o "-" \o strategy \o "-" \o timestamp \o ".json"

\* f"comparison-report-{report_filename_base}-{current_datetime}.html",
\* current_datetime = strftime("%Y-%m-%d-%H%M")
ReportName(base, timestamp) ==
    ReportPrefix \o base \o "-" \o Slice(timestamp, 1, 15) \o ".html"

\* os.path.join(root, filename)
join(root, filename) == root \o "/" \o filename

\* os.path.basename(path): what follows the last "/"
RECURSIVE basename(_)
basename(path) ==
    IF \E i \in 1..Len(path) : Char(path, i) = "/"
    THEN basename(Slice(path, (CHOOSE i \in 1..Len(path) : Char(path, i) = "/") + 1,
                        Len(path)))
    ELSE path

\* os.path.dirname(path): what precedes the last "/"
dirname(path) ==
    IF basename(path) = path THEN ""
    ELSE Slice(path, 1, Len(path) - Len(basename(path)) - 1)

\* The directories above the file at path
RECURSIVE Ancestors(_)
Ancestors(path) ==
    IF dirname(path) = "" THEN {}
    ELSE {dirname(path)} \cup Ancestors(dirname(path))

(***************************************************************************)
(* The files of the model                                                  *)
(***************************************************************************)
MaxFiles == 3

MaxInterference == 1

\* File names below the scanned root, as organise_reports.py and
\* compare_reports.py write them: artifacts of both grammars around the turn
\* of the year 2024/2025, and names that are no artifacts.
NamePool ==
    { "b-desktop-2025-01-03-180000.json",
      "a-desktop-2025-01-02-150000.json",
      "b-mobile-2025-01-02-090000.json",
      "a-desktop-2025-01-02-120000.json",
      "b-mobile-2025-01-01-120000.json",
      "a-desktop-2025-01-01-120000.json",
      "a-desktop-2024-12-31-120000.json",
      "b-desktop-2024-12-30-080000.json",
      "comparison-report-a-2024-12-29-1200.html",
      "a-mobile-2024-12-02-120000.json",
      "b-desktop-2024-11-30-120000.json",
      "readme.txt",
      "a-desktop-2024-13-01-120000.json",
      "-desktop-2024-12-31-120000.json" }

\* The name that also exists in a second site directory
SharedName == "a-desktop-2024-12-31-120000.json"

Site1 == "debug-responses/site1"

Site2 == "debug-responses/site2"

PathPool == {join(Site1, n) : n \in NamePool} \cup {join(Site2, SharedName)}

\* A directory entry below the root that is a symbolic link to a directory
Linked == "debug-responses/linked"

SymlinkDirs == {Linked}

\* A tree with the same name in two site directories and a later file of
\* that day, a file three directories down, a file behind the symbolic link
\* to a directory, a symbolic link to a file, and a file with the earliest
\* timestamp a name can spell
TreePool ==
    { join(Site1, SharedName),
      join(Site2, SharedName),
      join(Site1, "b-desktop-2024-12-31-180000.json"),
      join(join(join(Site1, "2024"), "12"), "b-mobile-2024-12-30-080000.json"),
      join(Linked, "c-desktop-2024-12-31-120000.json"),
      join(Site1, "latest-desktop-2025-01-01-090000.json"),
      join(Site1, "a-desktop-0001-01-01-000000.json") }

\* The directory entries of the tree that are symbolic links to a file
FileSymlinks == {join(Site1, "latest-desktop-2025-01-01-090000.json")}

AllPaths == PathPool \cup TreePool

\* parse_filename(os.path.basename(path)) of every path of the pools
ParseOf == [path \in AllPaths |-> parse_filename(basename(path))]

(***************************************************************************)
(* get_files_to_prune                                                      *)
(*                                                                         *)
(* A path is the string os.path.join(root, filename).                      *)
(***************************************************************************)
\* A faulty variant of AllTruthy: the test `slug is None or strategy is None
\* or timestamp is None`, which an empty slug passes
AllTruthyNotNone(r) == r.strategy # "None" /\ r.timestamp # <<>>

\* all([slug, strategy, timestamp]) of a parse result
AllTruthy(r) == r.slug # "" /\ r.strategy # "None" /\ r.timestamp # <<>>

\* slug, strategy, timestamp = parse_filename(filename) of the file at path,
\* looked up in ParseOf, the results for the paths of PathPool
Parsed(path) == ParseOf[path]

\* the scanner's test of one file of the walk
IsArtifact(path) == AllTruthy(Parsed(path))

Timestamp(path) == Parsed(path).timestamp

\* A faulty variant of RetentionKey: key = (root, slug, strategy, timestamp.date())
RetentionKeyWithDirectory(path) ==
    <<dirname(path), Parsed(path).slug, Parsed(path).strategy, Parsed(path).timestamp[1]>>

\* key = (slug, strategy, timestamp.date())
RetentionKey(path) ==
    <<Parsed(path).slug, Parsed(path).strategy, Parsed(path).timestamp[1]>>

Range(seq) == {seq[i] : i \in 1..Len(seq)}

\* The files of the walk that pass the test (the others are skipped: continue)
Scanned(walk) == SelectSeq(walk, IsArtifact)

\* A faulty variant of AllFiles: all_files.append before the test
AllFilesUnfiltered(walk) == Range(walk)

\* set(all_files)
AllFiles(walk) == Range(Scanned(walk))

\* daily_latest[key], in the order of the walk
FileGroup(scanned, key) ==
    SelectSeq(scanned, LAMBDA path : RetentionKey(path) = key)

\* A faulty variant of InsertDescending: the sort without reverse = True
RECURSIVE InsertAscending(_, _)
InsertAscending(sorted, x) ==
    IF sorted = <<>> THEN <<x>>
    ELSE IF DtLess(Timestamp(x), Timestamp(Head(sorted))) THEN <<x>> \o sorted
    ELSE <<Head(sorted)>> \o InsertAscending(Tail(sorted), x)

\* list.sort(key = timestamp, reverse = True) is stable: x goes behind the
\* entries that are not older than it
RECURSIVE InsertDescending(_, _)
InsertDescending(sorted, x) ==
    IF sorted = <<>> THEN <<x>>
    ELSE IF DtLess(Timestamp(Head(sorted)), Timestamp(x)) THEN <<x>> \o sorted
    ELSE <<Head(sorted)>> \o InsertDescending(Tail(sorted), x)

RECURSIVE SortDescending(_)
SortDescending(group) ==
    IF group = <<>> THEN <<>>
    ELSE InsertDescending(SortDescending(SubSeq(group, 1, Len(group) - 1)),
                          group[Len(group)])

\* files_to_keep after step 2: the first entry of every sorted group
DailyLatest(walk) ==
    LET scanned == Scanned(walk)
    IN  {SortDescending(FileGroup(scanned, RetentionKey(scanned[i])))[1] :
            i \in 1..Len(scanned)}

\* timestamp.strftime('%Y-%W'): the year and the week of the year, Monday first,
\* the days before the year's first Monday in week 0
WeekKey(timestamp) ==
    <<OrdYear(timestamp[1]),
      (OrdYday(timestamp[1]) - 1 + 7 - Weekday(timestamp[1])) \div 7>>

\* A faulty variant of MonthKey: strftime('%Y-%m-%d')
MonthKeyWithDay(timestamp) ==
    <<OrdYear(timestamp[1]), OrdMonth(timestamp[1]), timestamp[1]>>

\* timestamp.strftime('%Y-%m')
MonthKey(timestamp) == <<OrdYear(timestamp[1]), OrdMonth(timestamp[1])>>

\* A faulty variant of InRecentWindow: timestamp >= ninety_days_ago
InRecentWindowInclusive(timestamp, today, cfg) ==
    ~DtLess(timestamp, MinusDays(today, cfg.ninety_days))

\* The paths of PathPool that pass the scanner's test
ArtifactPaths == {path \in PathPool : IsArtifact(path)}

\* Rule 1: timestamp > ninety_days_ago
InRecentWindow(timestamp, today, cfg) ==
    DtGreater(timestamp, MinusDays(today, cfg.ninety_days))

\* Rule 2: timestamp > one_year_ago
InWeeklyWindow(timestamp, today, cfg) ==
    DtGreater(timestamp, MinusDays(today, cfg.one_year))

\* defaultdict(lambda: (datetime.min, None))[key]; None is ""
Lookup(retention, key) ==
    IF key \in DOMAIN retention THEN retention[key] ELSE <<DatetimeMin, "">>

Store(retention, key, value) ==
    [k \in DOMAIN retention \cup {key} |-> IF k = key THEN value ELSE retention[k]]

\* if timestamp > retention[key][0]: retention[key] = (timestamp, file_path)
\* (the read alone enters the default into the defaultdict)
Compete(retention, key, timestamp, file_path) ==
    IF DtGreater(timestamp, Lookup(retention, key)[1])
    THEN Store(retention, key, <<timestamp, file_path>>)
    ELSE Store(retention, key, Lookup(retention, key))

\* A faulty variant of TierStep: the loop without Rule 1
TierStepWithoutRule1(acc, file_path, today, cfg) ==
    LET timestamp == Timestamp(file_path)
    IN  IF InWeeklyWindow(timestamp, today, cfg)
        THEN [acc EXCEPT !.weekly = Compete(@, WeekKey(timestamp), timestamp, file_path)]
        ELSE [acc EXCEPT !.monthly = Compete(@, MonthKey(timestamp), timestamp, file_path)]

\* one pass of the loop over files_to_consider_for_retention
TierStep(acc, file_path, today, cfg) ==
    LET timestamp == Timestamp(file_path)
    IN  IF InRecentWindow(timestamp, today, cfg)
        THEN [acc EXCEPT !.final = @ \cup {file_path}]
        ELSE IF InWeeklyWindow(timestamp, today, cfg)
        THEN [acc EXCEPT !.weekly = Compete(@, WeekKey(timestamp), timestamp, file_path)]
        ELSE [acc EXCEPT !.monthly = Compete(@, MonthKey(timestamp), timestamp, file_path)]

RECURSIVE TierLoop(_, _, _)
TierLoop(list, today, cfg) ==
    IF list = <<>> THEN [final |-> {}, weekly |-> <<>>, monthly |-> <<>>]
    ELSE TierStep(TierLoop(SubSeq(list, 1, Len(list) - 1), today, cfg),
                  list[Len(list)], today, cfg)

\* the file paths a retention map holds: if file_path: final_files_to_keep.add(file_path)
Retained(retention) ==
    {retention[k][2] : k \in {j \in DOMAIN retention : retention[j][2] # ""}}

\* A faulty variant of FinalFilesToKeep: the loop starts at the second candidate
FinalFilesToKeepFromSecond(list, today, cfg) ==
    LET acc == TierLoop(IF list = <<>> THEN <<>> ELSE Tail(list), today, cfg)
    IN  acc.final \cup Retained(acc.weekly) \cup Retained(acc.monthly)

\* final_files_to_keep, from the candidates in the order the loop takes them
FinalFilesToKeep(list, today, cfg) ==
    LET acc == TierLoop(list, today, cfg)
    IN  acc.final \cup Retained(acc.weekly) \cup Retained(acc.monthly)

\* A faulty variant of FilesToPrune: set(all_files) & final_files_to_keep
FilesToPruneIntersection(all, final) == all \cap final

\* return set(all_files) - final_files_to_keep
FilesToPrune(all, final) == all \ final

\* The directories above every file of the pools
AncestorsOf == [path \in AllPaths |-> Ancestors(path)]

\* os.path.dirname of every file and every directory of the pools
DirnameOf ==
    [path \in AllPaths \cup UNION {AncestorsOf[q] : q \in AllPaths} |-> dirname(path)]

\* A faulty variant of os_walk: os.walk(directory, followlinks = True)
RECURSIVE os_walk_followlinks(_, _)
os_walk_followlinks(top, d) ==
    LET nondirs == {path \in d : DirnameOf[path] = top}
        dirs    == {q \in UNION {AncestorsOf[path] : path \in d} : DirnameOf[q] = top}
    IN  nondirs \cup UNION {os_walk_followlinks(q, d) : q \in dirs}

\* os.walk(top) over the files d: the paths join(root, filename) of the
\* triples it yields.  The entries of top that are no directories (files, and
\* symbolic links to files) are its files; it goes down into the directories
\* of top that are no symbolic links (followlinks is False)
RECURSIVE os_walk(_, _)
os_walk(top, d) ==
    LET nondirs == {path \in d : DirnameOf[path] = top}
        dirs    == {q \in UNION {AncestorsOf[path] : path \in d} : DirnameOf[q] = top}
    IN  nondirs \cup UNION {os_walk(q, d) : q \in {x \in dirs : x \notin SymlinkDirs}}

\* The sequences that list the set S once each
RECURSIVE Orders(_)
Orders(S) ==
    IF S = {} THEN {<<>>}
    ELSE UNION {{<<x>> \o seq : seq \in Orders(S \ {x})} : x \in S}

(***************************************************************************)
(* The directory tree, the clock and the configuration                     *)
(***************************************************************************)
\* The directory contents: the paths of the files below the scanned root
Disks == {P \in SUBSET PathPool : Cardinality(P) <= MaxFiles}

\* sorted(list(files_to_keep), key = os.path.getmtime): the mtimes are whatever
\* the file system holds, and files of one mtime stay in the iteration order
\* of the set, so the sorted list can be any order of the candidates
SortedByMtime(S) == Orders(S)

\* datetime.now(): 2025-01-03 12:00:00 and 2025-01-04 12:00:00.000001
NowPool == { <<Ymd2Ord(2025, 1, 3), 12 * 3600, 0>>, <<Ymd2Ord(2025, 1, 4), 12 * 3600, 1>> }

\* config['Retention']: the two horizons in days, ninety_days < one_year
Horizons == { [ninety_days |-> 2, one_year |-> 5] }

\* The keys of config['Retention'] that get_files_to_prune reads
HorizonKeys == {"ninety_days", "one_year"}

\* config['Retention'] of a config.ini that names the log file and no horizon
NoHorizons == [log_file |-> "retention.log"]

Directories == {"debug-responses", "missing"}

\* A faulty variant of isdir: main without the test of the directory
isdirUnchecked(directory) == TRUE

\* os.path.isdir(directory)
isdir(directory) == directory = "debug-responses"

ArchiveNames == {"None", "archive.zip"}

VARIABLES
    disk,                   \* the paths of the files below debug-responses
    archive,                \* the zip file: whether it exists, and entry name -> content
    now,                    \* the clock
    config,                 \* config['Retention']
    pc,                     \* where main is
    args,                   \* the command line of the run
    all_files,              \* get_files_to_prune: set(all_files)
    files_to_keep,          \* get_files_to_prune: the daily-dedup candidates
    today,                  \* get_files_to_prune: today
    final_files_to_keep,    \* get_files_to_prune: the keep-set
    files_to_prune,         \* main: the prune-set
    pending,                \* main: the part of files_to_prune the loop has yet to take
    log,                    \* the log lines of the run
    interference,           \* the files other processes removed during the run
    fname,               \* a call of parse_filename: its argument
    result,                 \* a call of parse_filename: what it returned
    tree,                   \* organise_reports: the files below debug_dir, path -> content
    json_files,             \* organise_files: the part of json_files the loop has yet to take
    out,                    \* organise_files: the lines it has printed
    run                     \* organise_reports: the runs started so far

vars == <<disk, archive, now, config, pc, args, all_files, files_to_keep, today,
          final_files_to_keep, files_to_prune, pending, log, interference,
          fname, result, tree, json_files, out, run>>

\* The state of organise_reports.py, which no step of retention.py changes
organiser == <<tree, json_files, out, run>>

NoArgs == [directory |-> "None", dry_run |-> FALSE, archive |-> "None"]

Line(level, msg, path) == [level |-> level, msg |-> msg, path |-> path]

NoPath == ""

\* no call of parse_filename has returned
NoResult == [slug |-> "", strategy |-> "pending", timestamp |-> <<>>]

Init ==
    /\ disk \in Disks
    /\ archive = [exists |-> FALSE, entries |-> <<>>]
    /\ now \in NowPool
    /\ config \in Horizons
    /\ pc = "idle"
    /\ args = NoArgs
    /\ all_files = {}
    /\ files_to_keep = {}
    /\ today = <<>>
    /\ final_files_to_keep = {}
    /\ files_to_prune = {}
    /\ pending = {}
    /\ log = {}
    /\ interference = 0
    /\ fname = ""
    /\ result = NoResult
    /\ tree = <<>>
    /\ json_files = <<>>
    /\ out = {}
    /\ run = 0

(***************************************************************************)
(* main                                                                    *)
(***************************************************************************)
\* parse_args, the isdir test and the first log lines
StartRun ==
    /\ pc = "idle"
    /\ \E directory \in Directories, dry_run \in BOOLEAN, arch \in ArchiveNames :
          /\ args' = [directory |-> directory, dry_run |-> dry_run, archive |-> arch]
          /\ IF ~isdir(directory)
             THEN /\ log' = {Line("ERROR", "directory not found", NoPath)}
                  /\ pc' = "done"
             ELSE /\ log' = {Line("INFO", "starting", NoPath)} \cup
                            (IF dry_run THEN {Line("INFO", "dry run mode", NoPath)} ELSE {})
                  /\ pc' = "walk"
    /\ all_files' = {}
    /\ files_to_keep' = {}
    /\ today' = <<>>
    /\ final_files_to_keep' = {}
    /\ files_to_prune' = {}
    /\ pending' = {}
    /\ UNCHANGED <<organiser, fname, result, disk, archive, now, config, interference>>

\* get_files_to_prune, steps 1 and 2: the walk in some listing order
Walk ==
    /\ pc = "walk"
    /\ \E listing \in Orders(os_walk(args.directory, disk)) :
          /\ all_files' = AllFiles(listing)
          /\ files_to_keep' = DailyLatest(listing)
    /\ pc' = "select"
    /\ UNCHANGED <<organiser, fname, result, disk, archive, now, config, args, today, final_files_to_keep,
                   files_to_prune, pending, log, interference>>

\* get_files_to_prune, steps 3 and 4, and main up to the loops.  getmtime of
\* a candidate that is gone raises FileNotFoundError, and config['Retention']
\* of a key the section does not hold raises KeyError; nothing catches them.
Select ==
    /\ pc = "select"
    /\ IF ~(files_to_keep \subseteq disk) \/ ~(HorizonKeys \subseteq DOMAIN config)
       THEN /\ pc' = "crashed"
            /\ UNCHANGED <<today, final_files_to_keep, files_to_prune, pending, log>>
       ELSE \E files_to_consider \in SortedByMtime(files_to_keep) :
              LET keep  == FinalFilesToKeep(files_to_consider, now, config)
                  prune == FilesToPrune(all_files, keep)
              IN  /\ today' = now
                  /\ final_files_to_keep' = keep
                  /\ files_to_prune' = prune
                  /\ IF prune = {}
                     THEN /\ log' = log \cup {Line("INFO", "no files to prune", NoPath)}
                          /\ pending' = {}
                          /\ pc' = "done"
                     ELSE /\ log' = log \cup {Line("INFO", "found files to prune", NoPath)} \cup
                                    (IF args.archive # "None" THEN {}
                                     ELSE {Line("INFO", "deleting files", NoPath)})
                          /\ pending' = prune
                          /\ pc' = IF args.archive # "None" THEN "open" ELSE "delete"
    /\ UNCHANGED <<organiser, fname, result, disk, archive, now, config, args, all_files, files_to_keep,
                   interference>>

\* A faulty variant of OpenArchive: zipfile.ZipFile(args.archive, 'w', ...),
\* which truncates the file
OpenArchiveTruncate ==
    /\ pc = "open"
    /\ log' = log \cup {Line("INFO", "archiving files", NoPath)}
    /\ \/ /\ archive' = [exists |-> TRUE, entries |-> <<>>]
          /\ pc' = "archive"
       \/ /\ pc' = "crashed"
          /\ UNCHANGED archive
    /\ UNCHANGED <<organiser, fname, result, disk, now, config, args, all_files, files_to_keep, today,
                   final_files_to_keep, files_to_prune, pending, interference>>

\* with zipfile.ZipFile(args.archive, 'a', ...): mode 'a' creates the file
\* when there is none.  An exception of the constructor (the path cannot be
\* written, or holds no zip file) is outside every try of main.
OpenArchive ==
    /\ pc = "open"
    /\ log' = log \cup {Line("INFO", "archiving files", NoPath)}
    /\ \/ /\ archive' = [archive EXCEPT !.exists = TRUE]
          /\ pc' = "archive"
       \/ /\ pc' = "crashed"
          /\ UNCHANGED archive
    /\ UNCHANGED <<organiser, fname, result, disk, now, config, args, all_files, files_to_keep, today,
                   final_files_to_keep, files_to_prune, pending, interference>>

\* A faulty variant of Remove: the file is looked up by its name, and every
\* file of that name below the root is removed
RemoveSameName(d, path) == {q \in d : basename(q) # basename(path)}

\* os.remove(file_path)
Remove(d, path) == d \ {path}

\* A faulty variant of Write: zf.write(file_path), the entry named by the path
WriteFullPath(entries, file_path) ==
    [name \in DOMAIN entries \cup {file_path} |->
        IF name # file_path THEN entries[name]
        ELSE IF name \in DOMAIN entries THEN Append(entries[name], file_path)
        ELSE <<file_path>>]

\* zf.write(file_path, os.path.basename(file_path)): the archive gets one more
\* member of that name with the content of file_path.  A zip file may hold
\* several members of one name; entries[name] lists them as they were written
Write(entries, file_path) ==
    [name \in DOMAIN entries \cup {basename(file_path)} |->
        IF name # basename(file_path) THEN entries[name]
        ELSE IF name \in DOMAIN entries THEN Append(entries[name], file_path)
        ELSE <<file_path>>]

\* A faulty variant of ArchiveFile: os.remove before zf.write, so that the
\* write finds no file
ArchiveFileRemoveFirst(file_path) ==
    /\ pc = "archive"
    /\ file_path \in pending
    /\ pending' = pending \ {file_path}
    /\ IF args.dry_run
       THEN UNCHANGED <<disk, archive, log>>
       ELSE IF file_path \notin disk
       THEN /\ log' = log \cup {Line("WARNING", "not found for archiving", file_path)}
            /\ UNCHANGED <<disk, archive>>
       ELSE \/ /\ disk' = Remove(disk, file_path)
               /\ log' = log \cup {Line("WARNING", "not found for archiving", file_path)}
               /\ UNCHANGED archive
            \/ /\ log' = log \cup {Line("ERROR", "error archiving", file_path)}
               /\ UNCHANGED <<disk, archive>>
    /\ UNCHANGED <<organiser, fname, result, now, config, pc, args, all_files, files_to_keep, today,
                   final_files_to_keep, files_to_prune, interference>>

\* one pass of the loop of the archive branch
ArchiveFile(file_path) ==
    /\ pc = "archive"
    /\ file_path \in pending
    /\ pending' = pending \ {file_path}
    /\ IF args.dry_run
       THEN UNCHANGED <<disk, archive, log>>
       ELSE IF file_path \notin disk
       THEN \* zf.write raises FileNotFoundError
            /\ log' = log \cup {Line("WARNING", "not found for archiving", file_path)}
            /\ UNCHANGED <<disk, archive>>
       ELSE \/ \* zf.write and os.remove succeed
               /\ archive' = [archive EXCEPT !.entries = Write(@, file_path)]
               /\ disk' = Remove(disk, file_path)
               /\ log' = log \cup {Line("INFO", "archived and removed", file_path)}
            \/ \* zf.write raises another exception
               /\ log' = log \cup {Line("ERROR", "error archiving", file_path)}
               /\ UNCHANGED <<disk, archive>>
            \/ \* zf.write succeeds, os.remove raises another exception
               /\ archive' = [archive EXCEPT !.entries = Write(@, file_path)]
               /\ log' = log \cup {Line("ERROR", "error archiving", file_path)}
               /\ UNCHANGED disk
    /\ UNCHANGED <<organiser, fname, result, now, config, pc, args, all_files, files_to_keep, today,
                   final_files_to_keep, files_to_prune, interference>>

\* A faulty variant of DeleteFile: the try around the whole loop, so that a
\* file that is gone ends the loop
DeleteFileUntilMissing(file_path) ==
    /\ pc = "delete"
    /\ file_path \in pending
    /\ IF args.dry_run
       THEN /\ log' = log \cup {Line("INFO", "would delete", file_path)}
            /\ pending' = pending \ {file_path}
            /\ UNCHANGED disk
       ELSE IF file_path \notin disk
       THEN /\ log' = log \cup {Line("WARNING", "not found for deletion", file_path)}
            /\ pending' = {}
            /\ UNCHANGED disk
       ELSE \/ /\ disk' = Remove(disk, file_path)
               /\ log' = log \cup {Line("INFO", "deleted", file_path)}
               /\ pending' = pending \ {file_path}
            \/ /\ log' = log \cup {Line("ERROR", "error deleting", file_path)}
               /\ pending' = {}
               /\ UNCHANGED disk
    /\ UNCHANGED <<organiser, fname, result, archive, now, config, pc, args, all_files, files_to_keep, today,
                   final_files_to_keep, files_to_prune, interference>>

\* one pass of the loop of the delete branch
DeleteFile(file_path) ==
    /\ pc = "delete"
    /\ file_path \in pending
    /\ pending' = pending \ {file_path}
    /\ IF args.dry_run
       THEN /\ log' = log \cup {Line("INFO", "would delete", file_path)}
            /\ UNCHANGED disk
       ELSE IF file_path \notin disk
       THEN \* os.remove raises FileNotFoundError
            /\ log' = log \cup {Line("WARNING", "not found for deletion", file_path)}
            /\ UNCHANGED disk
       ELSE \/ /\ disk' = Remove(disk, file_path)
               /\ log' = log \cup {Line("INFO", "deleted", file_path)}
            \/ \* os.remove raises another exception
               /\ log' = log \cup {Line("ERROR", "error deleting", file_path)}
               /\ UNCHANGED disk
    /\ UNCHANGED <<organiser, fname, result, archive, now, config, pc, args, all_files, files_to_keep, today,
                   final_files_to_keep, files_to_prune, interference>>

\* the end of the loop (and of the with block) and the last log line
Complete ==
    /\ pc \in {"archive", "delete"}
    /\ pending = {}
    /\ log' = log \cup {Line("INFO", "pruning process complete", NoPath)}
    /\ pc' = "done"
    /\ UNCHANGED <<organiser, fname, result, disk, archive, now, config, args, all_files, files_to_keep, today,
                   final_files_to_keep, files_to_prune, pending, interference>>

\* Another process removes a file between the walk and the loops, or a file
\* the loop has yet to take
Vanish(path) ==
    /\ \/ pc = "select" /\ path \in disk
       \/ pc \in {"archive", "delete"} /\ path \in pending \cap disk
    /\ interference < MaxInterference
    /\ disk' = Remove(disk, path)
    /\ interference' = interference + 1
    /\ UNCHANGED <<organiser, fname, result, archive, now, config, pc, args, all_files, files_to_keep, today,
                   final_files_to_keep, files_to_prune, pending, log>>

Next ==
    \/ StartRun
    \/ Walk
    \/ Select
    \/ OpenArchive
    \/ \E file_path \in AllPaths : ArchiveFile(file_path)
    \/ \E file_path \in AllPaths : DeleteFile(file_path)
    \/ Complete
    \/ \E path \in AllPaths : Vanish(path)

Spec == Init /\ [][Next]_vars

(***************************************************************************)
(* Runs over a tree with nested directories and symbolic links, with an    *)
(* archive a run before has written, and with a config.ini without         *)
(* horizons                                                                *)
(***************************************************************************)
TreeDisks == {P \in SUBSET TreePool : Cardinality(P) <= MaxFiles}

\* datetime.now(): 2025-01-01 12:00:00 and 2025-01-03 12:00:00
TreeNows == { <<Ymd2Ord(2025, 1, 1), 12 * 3600, 0>>, <<Ymd2Ord(2025, 1, 3), 12 * 3600, 0>> }

\* What an entry of the archive holds that a run before has written
Earlier == "earlier run"

\* The zip file: none, or the one of a run before that archived a file named
\* SharedName and a file of another name
TreeArchives ==
    { [exists |-> FALSE, entries |-> <<>>],
      [exists |-> TRUE,
       entries |-> [name \in {SharedName, "b-desktop-2024-11-30-120000.json"} |-> <<Earlier>>]] }

TreeInit ==
    /\ disk \in TreeDisks
    /\ archive \in TreeArchives
    /\ now \in TreeNows
    /\ config \in Horizons \cup {NoHorizons}
    /\ pc = "idle"
    /\ args = NoArgs
    /\ all_files = {}
    /\ files_to_keep = {}
    /\ today = <<>>
    /\ final_files_to_keep = {}
    /\ files_to_prune = {}
    /\ pending = {}
    /\ log = {}
    /\ interference = 0
    /\ fname = ""
    /\ result = NoResult
    /\ tree = <<>>
    /\ json_files = <<>>
    /\ out = {}
    /\ run = 0

TreeSpec == TreeInit /\ [][Next]_vars

(***************************************************************************)
(* The scan of one file: parse_filename and the scanner's test             *)
(***************************************************************************)
\* Dates of file names, <<year, month, day>>: real ones and ones that no
\* calendar has
RealDates == { <<2024, 1, 15>>, <<2024, 2, 29>>, <<2024, 12, 31>>, <<1, 1, 1>> }

UnrealDates ==
    { <<2024, 13, 1>>, <<2024, 1, 32>>, <<2024, 0, 10>>, <<2024, 1, 0>>,
      <<2025, 2, 29>>, <<2024, 4, 31>>, <<0, 1, 1>> }

\* Times of day of file names as HHMMSS: real ones and ones that no clock has
RealTimes == { 93000, 0, 235959 }

UnrealTimes == { 250000, 126000, 120060 }

Slugs == { "foo-bar", "a", "x-mobile-y", "" }

Strategies == { "desktop", "mobile" }

\* The names of the two grammars over these parts
JsonNames(dates, times) ==
    { JsonName(slug, strategy, FormatTimestamp(d[1], d[2], d[3], t)) :
        slug \in Slugs, strategy \in Strategies, d \in dates, t \in times }

ReportNames(dates, times) ==
    { ReportName(slug, FormatTimestamp(d[1], d[2], d[3], t)) :
        slug \in Slugs, d \in dates, t \in times }

\* A name with one more character behind it, a name with one more character
\* in front of it, and a name with its first letter in upper case
Suffixed(names) == { n \o c : n \in names, c \in {"x", "\n", " "} }

Prefixed(names) == { c \o n : n \in names, c \in {"x", "\n"} }

UpperCase == [c \in {"c", "d", "m", "j", "h"} |->
                 CASE c = "c" -> "C" [] c = "d" -> "D" [] c = "m" -> "M"
                   [] c = "j" -> "J" [] c = "h" -> "H"]

\* the name with the character at position i in upper case
Capitalised(n, i) ==
    Slice(n, 1, i - 1) \o UpperCase[Char(n, i)] \o Slice(n, i + 1, Len(n))

\* The json names with the strategy or the extension capitalised, and the
\* report names with the prefix or the extension capitalised
MixedCase ==
    { Capitalised(JsonName("a", st, "2024-01-15-093000"), 3) : st \in Strategies }
    \cup { Capitalised(n, Len(n) - 3) : n \in JsonNames({<<2024, 1, 15>>}, {93000}) }
    \cup { Capitalised(n, 1) : n \in ReportNames({<<2024, 1, 15>>}, {93000}) }
    \cup { Capitalised(n, Len(n) - 3) : n \in ReportNames({<<2024, 1, 15>>}, {93000}) }

\* The file names a scan meets
ScanNames ==
    JsonNames(RealDates \cup UnrealDates, RealTimes \cup UnrealTimes)
    \cup ReportNames(RealDates \cup UnrealDates, RealTimes \cup UnrealTimes)
    \cup Suffixed(JsonNames({<<2024, 1, 15>>}, {93000}))
    \cup Suffixed(ReportNames({<<2024, 1, 15>>}, {93000}))
    \cup Prefixed(ReportNames({<<2024, 1, 15>>}, {93000}))
    \cup MixedCase
    \cup NamePool

ScanInit ==
    /\ Init
    /\ disk = {}
    /\ now \in {n \in NowPool : \A m \in NowPool : ~DtLess(m, n)}

\* One pass of the loop of the walk for a file of some name: parse_filename,
\* the test of its result and all_files.append
ScanFile ==
    /\ pc = "idle"
    /\ result = NoResult
    /\ \E name \in ScanNames :
          /\ fname' = name
          /\ result' = parse_filename(name)
          /\ all_files' = IF AllTruthy(parse_filename(name))
                          THEN {join(Site1, name)} ELSE {}
    /\ UNCHANGED <<organiser, disk, archive, now, config, pc, args, files_to_keep, today,
                   final_files_to_keep, files_to_prune, pending, log, interference>>

ScanSpec == ScanInit /\ [][ScanFile]_vars

(***************************************************************************)
(* organise_reports.py: the renaming of the saved responses                *)
(*                                                                         *)
(* The content of a file is what organise_files reads from it: whether it  *)
(* is JSON, and lighthouseResult's requestedUrl, emulatedFormFactor and    *)
(* fetchTime, "" for a key the data do not hold.                           *)
(***************************************************************************)
MaxRuns == 2

\* str.replace(old, new)
RECURSIVE Replace(_, _, _)
Replace(s, old, new) ==
    IF Len(s) < Len(old) THEN s
    ELSE IF Slice(s, 1, Len(old)) = old
    THEN new \o Replace(Slice(s, Len(old) + 1, Len(s)), old, new)
    ELSE Char(s, 1) \o Replace(Slice(s, 2, Len(s)), old, new)

\* str.strip(c)
RECURSIVE Strip(_, _)
Strip(s, c) ==
    IF Len(s) > 0 /\ Char(s, 1) = c THEN Strip(Slice(s, 2, Len(s)), c)
    ELSE IF Len(s) > 0 /\ Char(s, Len(s)) = c THEN Strip(Slice(s, 1, Len(s) - 1), c)
    ELSE s

Scheme == "https://"

\* urlparse(url) of a url "https://<netloc><path>": the netloc ends before the
\* first "/" behind the scheme
urlparse(url) ==
    LET rest  == Slice(url, Len(Scheme) + 1, Len(url))
        slash == {i \in 1..Len(rest) : Char(rest, i) = "/"}
        cut   == IF slash = {} THEN Len(rest) + 1 ELSE Least(slash)
    IN  [netloc |-> Slice(rest, 1, cut - 1), path |-> Slice(rest, cut, Len(rest))]

get_slug_from_url(url) ==
    LET parsed_url == urlparse(url)
    IN  IF parsed_url.path = "" \/ parsed_url.path = "/"
        THEN Replace(Replace(parsed_url.netloc, "www.", ""), ".", "-")
        ELSE Replace(Strip(parsed_url.path, "/"), "/", "_")

\* datetime.fromisoformat of "YYYY-MM-DDTHH:MM:SS" and what may follow it
\* (fraction, offset): <<year, month, day, HHMMSS>>, or <<>> for a ValueError
fromisoformat(fetch_time) ==
    IF /\ Len(fetch_time) >= 19
       /\ \A i \in {1, 2, 3, 4, 6, 7, 9, 10, 12, 13, 15, 16, 18, 19} :
             IsDigit(Char(fetch_time, i))
       /\ Char(fetch_time, 5) = "-" /\ Char(fetch_time, 8) = "-"
       /\ Char(fetch_time, 11) = "T"
       /\ Char(fetch_time, 14) = ":" /\ Char(fetch_time, 17) = ":"
       /\ NumVal(Slice(fetch_time, 1, 4)) >= 1
       /\ NumVal(Slice(fetch_time, 6, 7)) \in 1..12
       /\ NumVal(Slice(fetch_time, 9, 10)) \in
             1..DaysInMonth(NumVal(Slice(fetch_time, 1, 4)), NumVal(Slice(fetch_time, 6, 7)))
       /\ NumVal(Slice(fetch_time, 12, 13)) < 24
       /\ NumVal(Slice(fetch_time, 15, 16)) < 60
       /\ NumVal(Slice(fetch_time, 18, 19)) < 60
    THEN <<NumVal(Slice(fetch_time, 1, 4)), NumVal(Slice(fetch_time, 6, 7)),
           NumVal(Slice(fetch_time, 9, 10)),
           NumVal(Slice(fetch_time, 12, 13)) * 10000
               + NumVal(Slice(fetch_time, 15, 16)) * 100
               + NumVal(Slice(fetch_time, 18, 19))>>
    ELSE <<>>

\* sanitise_timestamp(fetch_time), "" where it raises ValueError
sanitise_timestamp(fetch_time) ==
    LET dt_object == fromisoformat(Replace(fetch_time, "Z", "+00:00"))
    IN  IF dt_object = <<>> THEN ""
        ELSE FormatTimestamp(dt_object[1], dt_object[2], dt_object[3], dt_object[4])

\* What the saved responses hold
Response(url, strategy, fetch_time) ==
    [json |-> TRUE, requestedUrl |-> url, emulatedFormFactor |-> strategy,
     fetchTime |-> fetch_time]

HomePage == Response("https://www.example.com/", "desktop", "2024-01-15T09:30:00.123Z")

SubPage == Response("https://example.com/a/b/", "mobile", "2024-01-15T09:30:00.123Z")

NoStrategy == Response("https://www.example.com/", "", "2024-01-15T09:30:00.123Z")

BadFetchTime == Response("https://www.example.com/", "desktop", "yesterday")

NotJson == [json |-> FALSE, requestedUrl |-> "", emulatedFormFactor |-> "", fetchTime |-> ""]

OrgContents == {HomePage, SubPage, NoStrategy, BadFetchTime, NotJson}

\* new_filename of a response with its three values
NewFilename(data) ==
    JsonName(get_slug_from_url(data.requestedUrl), data.emulatedFormFactor,
             sanitise_timestamp(data.fetchTime))

\* old_path.with_name(new_filename)
with_name(old_path, new_filename) == join(dirname(old_path), new_filename)

\* The files below debug_dir: two names a collector gave, the name the home
\* page is to have, and a name in a second site directory
OrgPaths ==
    { join(Site1, "response-1.json"),
      join(Site1, "response-2.json"),
      join(Site1, "example-com-desktop-2024-01-15-093000.json"),
      join(Site2, "response-1.json") }

OrgTrees ==
    UNION {[P -> OrgContents] : P \in {Q \in SUBSET OrgPaths : Cardinality(Q) <= MaxFiles}}

\* What organise_files prints about a file
Printed(msg, old_path, new_path) ==
    [run |-> run, msg |-> msg, old |-> old_path, new |-> new_path]

OrgInit ==
    /\ tree \in OrgTrees
    /\ json_files = <<>>
    /\ out = {}
    /\ run = 0
    /\ pc = "idle"
    /\ disk = {}
    /\ archive = [exists |-> FALSE, entries |-> <<>>]
    /\ now \in {n \in NowPool : \A m \in NowPool : ~DtLess(m, n)}
    /\ config \in Horizons
    /\ args = NoArgs
    /\ all_files = {}
    /\ files_to_keep = {}
    /\ today = <<>>
    /\ final_files_to_keep = {}
    /\ files_to_prune = {}
    /\ pending = {}
    /\ log = {}
    /\ interference = 0
    /\ fname = ""
    /\ result = NoResult

\* base_dir.rglob('*' + suffix): the files below base_dir at any depth whose
\* name ends in the suffix
rglob(files, suffix) ==
    {path \in DOMAIN files :
        /\ Len(basename(path)) >= Len(suffix)
        /\ Slice(path, Len(path) - Len(suffix) + 1, Len(path)) = suffix}

\* The state of retention.py, which no step of organise_reports.py changes
retention == <<disk, archive, now, config, args, all_files, files_to_keep, today,
               final_files_to_keep, files_to_prune, pending, log, interference,
               fname, result>>

\* organise_files up to the loop: json_files = list(base_dir.rglob('*.json')),
\* in the order the file system lists them
StartOrganise ==
    /\ pc \in {"idle", "done", "crashed"}
    /\ run < MaxRuns
    /\ run' = run + 1
    /\ \E listing \in Orders(rglob(tree, ".json")) :
          /\ json_files' = listing
          /\ pc' = IF listing = <<>> THEN "done" ELSE "renaming"
    /\ UNCHANGED <<tree, out, retention>>

\* What becomes of the files when old_path is renamed to new_path
Rename(files, old_path, new_path) ==
    [path \in (DOMAIN files \ {old_path}) \cup {new_path} |->
        IF path = new_path THEN files[old_path] ELSE files[path]]

\* A faulty variant of OrganiseFile: the loop without the test
\* new_path.exists(), so that the rename replaces the file of that name
OrganiseFileOverwrite ==
    /\ pc = "renaming"
    /\ json_files # <<>>
    /\ LET old_path == Head(json_files)
           data     == tree[old_path]
           new_path == with_name(old_path, NewFilename(data))
       IN  /\ json_files' = Tail(json_files)
           /\ IF ~data.json
              THEN /\ out' = out \cup {Printed("could not process", old_path, NoPath)}
                   /\ UNCHANGED <<tree, pc>>
              ELSE IF "" \in {data.requestedUrl, data.emulatedFormFactor, data.fetchTime}
              THEN /\ out' = out \cup {Printed("missing required data", old_path, NoPath)}
                   /\ UNCHANGED <<tree, pc>>
              ELSE IF sanitise_timestamp(data.fetchTime) = ""
              THEN /\ pc' = "crashed"
                   /\ UNCHANGED <<tree, out>>
              ELSE IF old_path = new_path
              THEN UNCHANGED <<tree, out, pc>>
              ELSE /\ tree' = Rename(tree, old_path, new_path)
                   /\ out' = out \cup {Printed("renamed", old_path, new_path)}
                   /\ UNCHANGED pc
    /\ UNCHANGED <<run, retention>>

\* one pass of the loop of organise_files
OrganiseFile ==
    /\ pc = "renaming"
    /\ json_files # <<>>
    /\ LET old_path == Head(json_files)
           data     == tree[old_path]
           new_path == with_name(old_path, NewFilename(data))
       IN  /\ json_files' = Tail(json_files)
           /\ IF ~data.json
              THEN \* json.load raises JSONDecodeError
                   /\ out' = out \cup {Printed("could not process", old_path, NoPath)}
                   /\ UNCHANGED <<tree, pc>>
              ELSE IF "" \in {data.requestedUrl, data.emulatedFormFactor, data.fetchTime}
              THEN /\ out' = out \cup {Printed("missing required data", old_path, NoPath)}
                   /\ UNCHANGED <<tree, pc>>
              ELSE IF sanitise_timestamp(data.fetchTime) = ""
              THEN \* ValueError, which the except clause does not name
                   /\ pc' = "crashed"
                   /\ UNCHANGED <<tree, out>>
              ELSE IF old_path = new_path
              THEN UNCHANGED <<tree, out, pc>>
              ELSE IF new_path \in DOMAIN tree
              THEN /\ out' = out \cup {Printed("already exists", old_path, new_path)}
                   /\ UNCHANGED <<tree, pc>>
              ELSE /\ tree' = Rename(tree, old_path, new_path)
                   /\ out' = out \cup {Printed("renamed", old_path, new_path)}
                   /\ UNCHANGED pc
    /\ UNCHANGED <<run, retention>>

\* the end of the loop and the summary
FinishOrganise ==
    /\ pc = "renaming"
    /\ json_files = <<>>
    /\ pc' = "done"
    /\ out' = out \cup {Printed("organisation complete", NoPath, NoPath)}
    /\ UNCHANGED <<tree, json_files, run, retention>>

OrgNext ==
    \/ StartOrganise
    \/ OrganiseFile
    \/ FinishOrganise

OrgSpec == OrgInit /\ [][OrgNext]_vars

(***************************************************************************)
(* The retention policy, as the claims state it                            *)
(***************************************************************************)
\* get_files_to_prune has returned in this run
Selected == today # <<>>

\* today - timedelta(days) < the timestamp of path
YoungerThan(path, days) == DtLess(MinusDays(today, days), Timestamp(path))

InFullRetention(path) == YoungerThan(path, config.ninety_days)

InWeeklyTier(path) ==
    ~YoungerThan(path, config.ninety_days) /\ YoungerThan(path, config.one_year)

InMonthlyTier(path) == ~YoungerThan(path, config.one_year)

Older(f, g) == DtLess(Timestamp(f), Timestamp(g))

SameDay(f, g) ==
    /\ Parsed(f).slug = Parsed(g).slug
    /\ Parsed(f).strategy = Parsed(g).strategy
    /\ Timestamp(f)[1] = Timestamp(g)[1]

\* The calendar year of a file and the number of Mondays of that year up to
\* its date
YearWeekOf ==
    [path \in ArtifactPaths |->
        LET date == Timestamp(path)[1]
            year == OrdYear(date)
        IN  <<year, Cardinality({n \in Ymd2Ord(year, 1, 1)..date : Weekday(n) = 0})>>]

SameWeekBucket(f, g) == YearWeekOf[f] = YearWeekOf[g]

\* The year and the month a file name spells out
YearMonthOf ==
    [path \in ArtifactPaths |->
        LET name == basename(path)
            at   == IF Slice(name, 1, Len(ReportPrefix)) = ReportPrefix
                    THEN Len(name) - 19 ELSE Len(name) - 21
        IN  <<NumVal(Slice(name, at, at + 3)), NumVal(Slice(name, at + 5, at + 6))>>]

SameMonthBucket(f, g) == YearMonthOf[f] = YearMonthOf[g]

\* f is the one most recent candidate of its monthly bucket
MonthlyWinner(f) ==
    /\ InMonthlyTier(f)
    /\ \A g \in files_to_keep \ {f} :
          InMonthlyTier(g) /\ SameMonthBucket(f, g) =>
              ~Older(f, g) /\ g \notin final_files_to_keep

\* The ISO year and ISO week of a file: those of the Thursday of its week
IsoWeekOf ==
    [path \in ArtifactPaths |->
        LET date     == Timestamp(path)[1]
            thursday == CHOOSE n \in (date - 6)..(date + 6) :
                            /\ Weekday(n) = 3
                            /\ n - 3 <= date /\ date <= n + 3
            year     == OrdYear(thursday)
        IN  <<year, Cardinality({n \in Ymd2Ord(year, 1, 1)..thursday : Weekday(n) = 3})>>]

SameIsoWeek(f, g) == IsoWeekOf[f] = IsoWeekOf[g]

\* f is the one most recent candidate of its weekly bucket, the ISO week
WeeklyWinner(f) ==
    /\ InWeeklyTier(f)
    /\ \A g \in files_to_keep \ {f} :
          InWeeklyTier(g) /\ SameIsoWeek(f, g) =>
              ~Older(f, g) /\ g \notin final_files_to_keep

\* C1, as stated: every file of the keep-set is a recognized artifact file and
\* is in the full-retention window, or the single most recent file of its
\* weekly bucket, or the single most recent file of its monthly bucket
C1_KeepSetJustified ==
    Selected =>
        \A f \in final_files_to_keep :
            /\ f \in all_files
            /\ IsArtifact(f)
            /\ InFullRetention(f) \/ WeeklyWinner(f) \/ MonthlyWinner(f)

\* The prune-sets a pass over the directory contents d can compute
PruneSets(d) ==
    LET scans == {<<AllFiles(walk), DailyLatest(walk)>> : walk \in Orders(d)}
    IN  UNION {{FilesToPrune(scan[1], FinalFilesToKeep(list, today, config)) :
                    list \in SortedByMtime(scan[2])} : scan \in scans}

\* C2: after a real pass that removed every file of its prune-set, a second
\* pass over the same directory with the same now and the same horizons
\* computes an empty prune-set
C2_Idempotent ==
    (pc = "done" /\ Selected /\ ~args.dry_run /\ files_to_prune \cap disk = {}) =>
        PruneSets(disk) = {{}}

\* A real pass that removed its prune-set and left files
C2_Witness ==
    /\ pc = "done" /\ Selected /\ ~args.dry_run
    /\ files_to_prune # {} /\ files_to_prune \cap disk = {}
    /\ \E f \in files_to_prune :
          Line("INFO", "deleted", f) \in log \/ Line("INFO", "archived and removed", f) \in log
    /\ final_files_to_keep \cap disk # {}

\* C3: of two recognized files with the same slug, strategy and calendar date,
\* the one with the earlier timestamp is no candidate and is in the prune-set;
\* one file of each such group remains a candidate
C3_DailyDedup ==
    /\ files_to_keep \subseteq all_files
    /\ \A f \in all_files :
          /\ \E g \in files_to_keep : SameDay(f, g)
          /\ \A g \in all_files \ {f} :
                SameDay(f, g) =>
                    /\ ~(f \in files_to_keep /\ g \in files_to_keep)
                    /\ Older(f, g) =>
                          f \notin files_to_keep /\ (Selected => f \in files_to_prune)

\* A run that found two files of one day and dropped the earlier one
C3_Witness ==
    /\ Selected
    /\ \E f \in files_to_prune, g \in files_to_keep :
          SameDay(f, g) /\ Older(f, g) /\ f \notin files_to_keep

\* C4: every candidate whose timestamp is later than now minus the recent
\* horizon is in the keep-set, however many candidates share its week or month
C4_RecentAllKept ==
    Selected =>
        \A f \in files_to_keep : InFullRetention(f) => f \in final_files_to_keep

\* A run that kept two recent candidates of one week and one month, one of
\* them with a timestamp in the future
C4_Witness ==
    /\ Selected
    /\ \E f \in final_files_to_keep, g \in final_files_to_keep :
          /\ f # g
          /\ DtLess(today, Timestamp(f))
          /\ InFullRetention(f) /\ InFullRetention(g)
          /\ SameWeekBucket(f, g) /\ SameMonthBucket(f, g)

\* The timestamp of path is exactly today - timedelta(days)
AgedExactly(path, days) == Timestamp(path) = MinusDays(today, days)

\* C5: a candidate timestamped exactly now minus the recent horizon is in the
\* weekly tier, and one timestamped exactly now minus the cutoff horizon is in
\* the monthly tier: of such a file and another candidate of that tier in its
\* week (the same calendar year and Monday-based week of the year), or in its
\* month, at most one is kept, and never the older one
C5_BoundaryTiers ==
    Selected =>
        \A f \in files_to_keep :
            /\ AgedExactly(f, config.ninety_days) =>
                  \A g \in files_to_keep \ {f} :
                      InWeeklyTier(g) /\ SameWeekBucket(f, g) =>
                          /\ ~(f \in final_files_to_keep /\ g \in final_files_to_keep)
                          /\ Older(g, f) => g \notin final_files_to_keep
                          /\ Older(f, g) => f \notin final_files_to_keep
            /\ AgedExactly(f, config.one_year) =>
                  \A g \in files_to_keep \ {f} :
                      InMonthlyTier(g) /\ SameMonthBucket(f, g) =>
                          /\ ~(f \in final_files_to_keep /\ g \in final_files_to_keep)
                          /\ Older(g, f) => g \notin final_files_to_keep
                          /\ Older(f, g) => f \notin final_files_to_keep

\* A run that pruned a candidate aged exactly the recent horizon, and one that
\* kept a candidate aged exactly the cutoff horizon over an older one of its month
C5_Witness ==
    /\ Selected
    /\ \/ \E f \in files_to_keep \ final_files_to_keep :
             AgedExactly(f, config.ninety_days)
       \/ \E f \in final_files_to_keep, g \in files_to_keep \ final_files_to_keep :
             AgedExactly(f, config.one_year) /\ SameMonthBucket(f, g) /\ Older(g, f)

DifferentArtifact(f, g) ==
    Parsed(f).slug # Parsed(g).slug \/ Parsed(f).strategy # Parsed(g).strategy

\* C6, as stated: of two weekly-tier candidates of different slugs or
\* strategies in the same ISO week only the later one is kept, and at most one
\* weekly-tier file is kept per ISO week
C6_OnePerIsoWeek ==
    Selected =>
        \A f \in files_to_keep, g \in files_to_keep :
            f # g /\ InWeeklyTier(f) /\ InWeeklyTier(g) /\ SameIsoWeek(f, g) =>
                /\ ~(f \in final_files_to_keep /\ g \in final_files_to_keep)
                /\ DifferentArtifact(f, g) /\ Older(f, g) => f \notin final_files_to_keep

\* C7, as stated: a weekly-tier candidate is out of the keep-set when a later
\* weekly-tier candidate has its ISO year and ISO week, and in it when it is
\* later than every other weekly-tier candidate of its ISO year and ISO week
C7_IsoWeekKey ==
    Selected =>
        \A f \in files_to_keep :
            InWeeklyTier(f) =>
                /\ (\E g \in files_to_keep :
                        InWeeklyTier(g) /\ SameIsoWeek(f, g) /\ Older(f, g))
                        => f \notin final_files_to_keep
                /\ (\A g \in files_to_keep \ {f} :
                        InWeeklyTier(g) /\ SameIsoWeek(f, g) => Older(g, f))
                        => f \in final_files_to_keep

\* C8: a monthly-tier candidate in the keep-set has the maximum timestamp of
\* the monthly-tier candidates of its year and month, of all slugs and
\* strategies, and no other of them is in the keep-set; a monthly-tier
\* candidate out of the keep-set is in the prune-set
C8_OnePerMonth ==
    Selected =>
        \A f \in files_to_keep :
            InMonthlyTier(f) =>
                IF f \in final_files_to_keep
                THEN MonthlyWinner(f)
                ELSE f \in files_to_prune

\* A run that kept the later of two monthly-tier candidates of different slugs
\* or strategies of one month, dropped the earlier one, and kept a candidate
\* of another month
C8_Witness ==
    /\ Selected
    /\ \E f \in files_to_prune, g \in final_files_to_keep :
          /\ InMonthlyTier(f) /\ InMonthlyTier(g) /\ SameMonthBucket(f, g)
          /\ DifferentArtifact(f, g) /\ Older(f, g)
          /\ \E h \in final_files_to_keep :
                InMonthlyTier(h) /\ ~SameMonthBucket(h, g)

\* The paths the scanner does not recognize, and among them those whose name
\* matches neither pattern
IgnoredPaths == PathPool \ ArtifactPaths

UnmatchedPaths ==
    {path \in PathPool :
        DebugSplits(basename(path)) = {} /\ ReportSplits(basename(path)) = {}}

Untouched(path) ==
    /\ path \notin all_files \cup files_to_keep \cup final_files_to_keep
    /\ path \notin files_to_prune \cup pending
    /\ \A line \in log : line.path # path
    /\ \A name \in DOMAIN archive.entries : path \notin Range(archive.entries[name])

\* C9: a file the scanner does not recognize (one whose name matches neither
\* pattern among them) is never in the keep-set or the prune-set, no log line
\* and no archive entry names it, and no step of a run removes it
C9_UnknownsIgnored ==
    /\ [](\A path \in IgnoredPaths : Untouched(path))
    /\ [][\A path \in IgnoredPaths \cap disk :
            path \notin disk' => interference' = interference + 1]_vars

\* A real run that is over, has removed a file, and has left a file whose
\* name matches neither pattern
C9_Witness ==
    /\ pc = "done" /\ Selected /\ ~args.dry_run
    /\ \E f \in files_to_prune :
          Line("INFO", "deleted", f) \in log \/ Line("INFO", "archived and removed", f) \in log
    /\ UnmatchedPaths \cap disk # {}

\* C10, as stated: a step of a dry run leaves the archive as it is, and
\* removes no file
C10_DryRunTouchesNothing ==
    [][args.dry_run =>
          /\ archive' = archive
          /\ disk' # disk => interference' = interference + 1]_vars

(***************************************************************************)
(* The executor of main, as the claims state it                            *)
(***************************************************************************)
\* Some line of the log names the file at path
Named(path) == \E line \in log : line.path = path

\* C11, as stated: when a dry run is over, the log names every file of the
\* prune-set, with --archive and without it, and the prune-set is one a real
\* pass over the scanned files with the same now computes
C11_DryRunReportsPruneSet ==
    (pc = "done" /\ Selected /\ args.dry_run) =>
        /\ \A f \in files_to_prune : Named(f)
        /\ files_to_prune \in PruneSets(all_files)

\* What reading the entry of a name from the archive returns: the member of
\* that name written last
Recovered(arch, name) == arch.entries[name][Len(arch.entries[name])]

\* The archive holds the content of the file at path under its base name
InArchive(arch, path) ==
    /\ basename(path) \in DOMAIN arch.entries
    /\ Recovered(arch, basename(path)) = path

\* A real run with --archive that took the archive branch
RealArchiveRun == Selected /\ ~args.dry_run /\ args.archive # "None"

RealDeleteRun == Selected /\ ~args.dry_run /\ args.archive = "None"

RunStep ==
    \/ StartRun
    \/ Walk
    \/ Select
    \/ OpenArchive
    \/ \E file_path \in AllPaths : ArchiveFile(file_path)
    \/ \E file_path \in AllPaths : DeleteFile(file_path)
    \/ Complete

\* A directory of a few files: three that compete in one week, and a name
\* that is no artifact
LivePool ==
    { join(Site1, "b-mobile-2025-01-02-090000.json"),
      join(Site1, "b-mobile-2025-01-01-120000.json"),
      join(Site1, "a-desktop-2025-01-01-120000.json"),
      join(Site1, "readme.txt") }

LiveInit == Init /\ disk \subseteq LivePool

\* The runs over such a directory in which the process is scheduled until
\* main returns or raises
LiveSpec == LiveInit /\ [][Next]_vars /\ WF_vars(RunStep)

\* The terminal states of a file of the prune-set, read from the log
DryRunReported(f) == Line("INFO", "would delete", f) \in log

ArchivedAndRemoved(f) == Line("INFO", "archived and removed", f) \in log

Removed(f) == Line("INFO", "deleted", f) \in log

Failed(f) == \E line \in log : line.path = f /\ line.level \in {"WARNING", "ERROR"}

TerminalStates(f) ==
    {s \in {"DRY_RUN_REPORTED", "ARCHIVED_AND_REMOVED", "REMOVED", "FAILED"} :
        \/ s = "DRY_RUN_REPORTED" /\ DryRunReported(f)
        \/ s = "ARCHIVED_AND_REMOVED" /\ ArchivedAndRemoved(f)
        \/ s = "REMOVED" /\ Removed(f)
        \/ s = "FAILED" /\ Failed(f)}

\* main has returned after get_files_to_prune
Completed == pc = "done" /\ Selected

\* C14, as stated: a file of the prune-set is pending and in no terminal
\* state, or taken and in exactly one; main returns after the selection only
\* with every file of the prune-set in a terminal state; and every run on an
\* existing directory returns
C14_ExecutorStateMachine ==
    /\ [](Selected =>
            \A f \in files_to_prune :
                IF f \in pending THEN TerminalStates(f) = {}
                ELSE Cardinality(TerminalStates(f)) = 1)
    /\ [](Completed => \A f \in files_to_prune : TerminalStates(f) # {})
    /\ [](pc = "walk" => <>Completed)

\* The run was started on a directory that does not exist
MissingDirectory == args.directory = "missing"

\* C15: a run on a directory that does not exist logs the error and nothing
\* else, has returned, has scanned and selected nothing, and no step of it
\* changes the files or the archive
C15_MissingDirectory ==
    /\ [](MissingDirectory =>
            /\ pc = "done"
            /\ log = {Line("ERROR", "directory not found", NoPath)}
            /\ ~Selected
            /\ all_files = {} /\ files_to_keep = {} /\ files_to_prune = {}
            /\ ~archive.exists /\ archive.entries = <<>>)
    /\ [][MissingDirectory' => disk' = disk /\ archive' = archive]_vars

\* A run with --archive on a directory that does not exist, with files on disk
C15_Witness ==
    /\ MissingDirectory /\ pc = "done"
    /\ args.archive # "None" /\ ~args.dry_run
    /\ Cardinality(disk \cap ArtifactPaths) >= 2

\* C16, as stated: no run ends in an uncaught exception, and a run that has
\* returned without a selection is one on a missing directory
C16_EndsNormally ==
    /\ pc # "crashed"
    /\ (pc = "done" /\ ~Selected) => MissingDirectory

\* C17, as stated: a run in which a file it scanned as a candidate is gone
\* does not end in an exception; and when a real run has returned, every
\* file of the prune-set that is gone was removed by the run or has its
\* warning
C17_InterferenceBenign ==
    /\ ~(files_to_keep \subseteq disk) => pc # "crashed"
    /\ (Completed /\ ~args.dry_run) =>
          \A f \in files_to_prune \ disk :
              \/ Removed(f)
              \/ ArchivedAndRemoved(f)
              \/ \E line \in log : line.path = f /\ line.level = "WARNING"

\* C18, as stated: the prune-set of a run is the only one a pass over the
\* scanned files with the same now computes, whatever the order of the walk
\* and the order of the candidates by modification time
C18_DeterministicPruneSet ==
    Selected => PruneSets(all_files) = {files_to_prune}

(***************************************************************************)
(* parse_filename, as the claims state it                                  *)
(***************************************************************************)
\* The scan of the file has taken place
ScanDone == result # NoResult

\* Names of the shape of a grammar whose digits are no date or no time
MalformedNames ==
    JsonNames(UnrealDates, RealTimes \cup UnrealTimes)
    \cup JsonNames(RealDates, UnrealTimes)
    \cup ReportNames(UnrealDates, RealTimes \cup UnrealTimes)
    \cup ReportNames(RealDates, {250000, 126000})

\* C19: for a name of the shape of one of the grammars whose timestamp is no
\* real date and time, parse_filename returns the no-match result, and the
\* scanner does not take the file
C19_MalformedTimestamp ==
    (ScanDone /\ fname \in MalformedNames) => (result = NoMatch /\ all_files = {})

\* The scan of a json name with day 32, one with 29 February of a common
\* year, one with hour 25, or a report name with month 13
C19_Witness ==
    /\ ScanDone
    /\ fname \in { JsonName("foo-bar", "desktop", FormatTimestamp(2024, 1, 32, 93000)),
                   JsonName("a", "mobile", FormatTimestamp(2025, 2, 29, 0)),
                   JsonName("a", "mobile", FormatTimestamp(2024, 1, 15, 250000)),
                   ReportName("foo-bar", FormatTimestamp(2024, 13, 1, 93000)) }
    /\ DebugSplits(fname) # {} \/ ReportSplits(fname) # {}

\* The datetime of a date <<year, month, day>> and a time of day HHMMSS
DateTimeOf(d, t) ==
    <<Ymd2Ord(d[1], d[2], d[3]),
      (t \div 10000) * 3600 + ((t \div 100) % 100) * 60 + (t % 100), 0>>

\* The same with the seconds dropped, as a report name holds it
DateTimeToMinute(d, t) == DateTimeOf(d, t - (t % 100))

\* Names with a character more than a name of a grammar has, behind '.json'
\* or '.html' or in front of 'comparison-report-', and names of another case
NearNames ==
    Suffixed(JsonNames({<<2024, 1, 15>>}, {93000}))
    \cup Suffixed(ReportNames({<<2024, 1, 15>>}, {93000}))
    \cup Prefixed(ReportNames({<<2024, 1, 15>>}, {93000}))
    \cup MixedCase

\* C20, as stated: parse_filename returns the slug, the strategy and the
\* timestamp a json name was written from, and the slug, 'report' and the
\* timestamp to the minute a report name was written from; and a name with
\* an extra character in front or behind, or of another case, is no match
C20_GrammarClassification ==
    ScanDone =>
        /\ \A slug \in Slugs, strategy \in Strategies, d \in RealDates, t \in RealTimes :
              fname = JsonName(slug, strategy, FormatTimestamp(d[1], d[2], d[3], t)) =>
                  result = [slug |-> slug, strategy |-> strategy,
                            timestamp |-> DateTimeOf(d, t)]
        /\ \A slug \in Slugs, d \in RealDates, t \in RealTimes :
              fname = ReportName(slug, FormatTimestamp(d[1], d[2], d[3], t)) =>
                  result = [slug |-> slug, strategy |-> "report",
                            timestamp |-> DateTimeToMinute(d, t)]
        /\ fname \in NearNames => result = NoMatch

(***************************************************************************)
(* The two sets of a pass, as the claims state them                        *)
(***************************************************************************)
\* C21: once the directory is scanned, the recognized artifacts are the files
\* of the directory that pass the scanner's test; and once the selection is
\* made, the prune-set and the keep-set have no file in common and together
\* are the recognized artifacts
C21_KeepPrunePartition ==
    /\ (interference = 0 /\ (pc = "select" \/ (Selected /\ args.dry_run))) =>
          all_files = disk \cap ArtifactPaths
    /\ Selected =>
          /\ files_to_prune \cap final_files_to_keep = {}
          /\ files_to_prune \cup final_files_to_keep = all_files

\* A selection with a file in each of the two sets, over a directory that
\* also holds a file that is no artifact
C21_Witness ==
    /\ Selected /\ interference = 0 /\ args.dry_run
    /\ files_to_prune # {} /\ final_files_to_keep # {}
    /\ disk \ ArtifactPaths # {}

\* The file at path is below the directory of the command line
UnderTarget(path) ==
    Slice(path, 1, Len(args.directory) + 1) = args.directory \o "/"

\* C22: a step of a run creates no file in the tree and removes only files of
\* its prune-set below the target directory, and only in the loops of a real
\* run; and when main has returned, every file of the keep-set that no other
\* process removed is where it was
C22_PruningFrame ==
    /\ [][/\ disk' \subseteq disk
          /\ \A f \in disk \ disk' :
                \/ interference' = interference + 1
                \/ /\ f \in files_to_prune /\ f \notin final_files_to_keep
                   /\ UnderTarget(f)
                   /\ pc \in {"archive", "delete"} /\ ~args.dry_run]_vars
    /\ []((Completed /\ interference = 0) => final_files_to_keep \subseteq disk)

\* A real run that has returned: it removed a file of the prune-set whose
\* name a file of the keep-set in another directory shares, and the kept
\* file is on disk
C22_Witness ==
    /\ Completed /\ ~args.dry_run /\ interference = 0
    /\ \E f \in files_to_prune, g \in final_files_to_keep :
          /\ basename(f) = basename(g)
          /\ f \notin disk /\ g \in disk

(***************************************************************************)
(* The outcome of a run, as the claims state it                            *)
(***************************************************************************)
\* The run has logged no warning and no error
NoFailure == \A line \in log : line.level = "INFO"

\* C23: when a real run has returned without a failure, no file of the
\* prune-set is in the tree, and with --archive the archive holds for each
\* of them an entry of its base name written from it; and a step of a run
\* takes no entry out of the archive: all it does to the archive is to add
\* the entry of the file it takes
C23_RealRunOutcome ==
    /\ []((Completed /\ ~args.dry_run /\ NoFailure) =>
            \A f \in files_to_prune :
                /\ f \notin disk
                /\ args.archive # "None" =>
                      /\ archive.exists
                      /\ basename(f) \in DOMAIN archive.entries
                      /\ f \in Range(archive.entries[basename(f)]))
    /\ [][/\ DOMAIN archive.entries \subseteq DOMAIN archive'.entries
          /\ \A name \in DOMAIN archive.entries :
                archive'.entries[name] # archive.entries[name] =>
                    \E f \in pending \ pending' :
                        /\ basename(f) = name
                        /\ archive'.entries[name] = Append(archive.entries[name], f)]_vars

\* A real run with --archive that has returned without a failure: a file of
\* the prune-set is in the archive and out of the tree, next to an entry of a
\* run before
C23_Witness ==
    /\ Completed /\ ~args.dry_run /\ NoFailure /\ args.archive # "None"
    /\ \E f \in files_to_prune : f \notin disk /\ InArchive(archive, f)
    /\ \E name \in DOMAIN archive.entries : Earlier \in Range(archive.entries[name])

\* Two files of the prune-set of one base name, both archived and removed
\* by a real run that has returned
ArchivedTwins(f, g) ==
    /\ Completed /\ RealArchiveRun
    /\ f \in files_to_prune /\ g \in files_to_prune
    /\ f # g /\ basename(f) = basename(g)
    /\ ArchivedAndRemoved(f) /\ ArchivedAndRemoved(g)

\* C24, as stated: two pruned files of one base name are written under the
\* same entry name and removed from the tree, and the later write replaces
\* the earlier one, so that the archive holds the content of one of the two
C24_ArchiveOverwrites ==
    \A f \in TreePool, g \in TreePool :
        ArchivedTwins(f, g) =>
            /\ f \notin disk /\ g \notin disk
            /\ basename(f) \in DOMAIN archive.entries
            /\ Cardinality({f, g} \cap Range(archive.entries[basename(f)])) = 1

\* C24, amended: two pruned files of one base name are written as members
\* of the same entry name and removed from the tree; the archive holds both
\* contents, and reading the entry by its name returns one of the two, the
\* one written last
C24_ArchiveHides ==
    /\ [](\A f \in TreePool, g \in TreePool :
            ArchivedTwins(f, g) =>
                /\ f \notin disk /\ g \notin disk
                /\ basename(f) \in DOMAIN archive.entries
                /\ {f, g} \subseteq Range(archive.entries[basename(f)])
                /\ Recovered(archive, basename(f)) \in {f, g})
    /\ [][\A f \in pending \ pending' :
            archive' # archive =>
                /\ DOMAIN archive'.entries = DOMAIN archive.entries \cup {basename(f)}
                /\ Recovered(archive', basename(f)) = f]_vars

\* A real archive run that has returned: it archived and removed the two
\* files named SharedName of the two site directories
C24_Witness ==
    /\ ArchivedTwins(join(Site1, SharedName), join(Site2, SharedName))
    /\ disk \cap {join(Site1, SharedName), join(Site2, SharedName)} = {}
    /\ Len(archive.entries[SharedName]) >= 2

(***************************************************************************)
(* The scanner, as the claims state it                                     *)
(***************************************************************************)
\* The walk of this run is over
WalkDone == pc \in {"select", "open", "archive", "delete", "crashed"} \/ Completed

\* The files of the tree whose names the scanner's test accepts
Recognizable == {path \in AllPaths : IsArtifact(path)}

\* A directory on the way down to the file is a symbolic link
BehindSymlink(path) == Ancestors(path) \cap SymlinkDirs # {}

\* The file lies that many directories below the root or deeper
Nested(path, depth) == Cardinality(Ancestors(path)) > depth

\* C25, as stated: after the walk every file of the tree with a recognized
\* name is among the recognized artifacts, at any depth and behind any
\* symbolic link
C25_ScannerReachesAll ==
    WalkDone => \A path \in disk \cap Recognizable : path \in all_files

\* C25, amended: after the walk a file of the tree with a recognized name is
\* among the recognized artifacts exactly if no directory on the way down to
\* it is a symbolic link; files at any depth and symbolic links to files are
\* among them
C25_ScannerSkipsLinkedDirs ==
    WalkDone =>
        /\ \A path \in disk \cap Recognizable :
              path \in all_files <=> ~BehindSymlink(path)
        /\ \A path \in all_files : path \in Recognizable /\ UnderTarget(path)

\* A walk of a tree that holds a file three directories below a site
\* directory, a symbolic link to a file, and a file behind a symbolic link
\* to a directory: the first two are recognized artifacts, the third is not
C25_Witness ==
    /\ pc = "select" /\ interference = 0
    /\ \E f \in all_files : Nested(f, 3)
    /\ \E f \in all_files : f \in FileSymlinks
    /\ \E f \in disk \cap Recognizable : BehindSymlink(f) /\ f \notin all_files

(***************************************************************************)
(* The configuration, as the claims state it                               *)
(***************************************************************************)
\* The horizons the specification names as defaults
DefaultHorizons == [ninety_days |-> 90, one_year |-> 365]

\* C26, as stated: a run whose configuration holds no horizons does not end
\* in an exception, and its keep-set is the one of the horizons 90 and 365
C26_HorizonDefaults ==
    ~(HorizonKeys \subseteq DOMAIN config) =>
        /\ pc # "crashed"
        /\ Selected =>
              \E list \in SortedByMtime(files_to_keep) :
                  final_files_to_keep = FinalFilesToKeep(list, today, DefaultHorizons)

\* Two recognized files of one slug, strategy and date in two directories
SameKeyElsewhere(f, g) ==
    /\ f # g /\ dirname(f) # dirname(g)
    /\ Parsed(f).slug = Parsed(g).slug
    /\ Parsed(f).strategy = Parsed(g).strategy
    /\ Timestamp(f)[1] = Timestamp(g)[1]

\* C27: two recognized files of one slug, strategy and date in different
\* directories have the same retention key; after the walk at most one of
\* them is a candidate, and after the selection at least one of them is in
\* the prune-set, whatever their age
C27_KeyIgnoresDirectory ==
    WalkDone =>
        \A f \in all_files, g \in all_files :
            SameKeyElsewhere(f, g) =>
                /\ RetentionKey(f) = RetentionKey(g)
                /\ ~(f \in files_to_keep /\ g \in files_to_keep)
                /\ Selected => (f \in files_to_prune \/ g \in files_to_prune)

\* A selection over the two site directories with a file of the same name in
\* each, both in the full-retention window: one is kept and one is pruned
C27_Witness ==
    /\ Selected
    /\ \E f \in files_to_prune, g \in final_files_to_keep :
          /\ SameKeyElsewhere(f, g)
          /\ InFullRetention(f) /\ InFullRetention(g)

(***************************************************************************)
(* The buckets of the selector, as the claims state them                   *)
(***************************************************************************)
\* The candidates of the weekly tier in the weekly bucket of f that are kept
KeptOfWeek(f) ==
    {g \in files_to_keep \cap final_files_to_keep :
        InWeeklyTier(g) /\ WeekKey(Timestamp(g)) = WeekKey(Timestamp(f))}

\* The candidates of the monthly tier in the monthly bucket of f that are kept
KeptOfMonth(f) ==
    {g \in files_to_keep \cap final_files_to_keep :
        InMonthlyTier(g) /\ MonthKey(Timestamp(g)) = MonthKey(Timestamp(f))}

\* C28, as stated: after the selection every weekly bucket and every monthly
\* bucket that holds a candidate has exactly one of its candidates in the
\* keep-set, whatever the timestamps are, and a directory with a recognized
\* artifact has a keep-set that is not empty
C28_NoBucketEmptied ==
    Selected =>
        /\ \A f \in files_to_keep :
              /\ InWeeklyTier(f) => Cardinality(KeptOfWeek(f)) = 1
              /\ InMonthlyTier(f) => Cardinality(KeptOfMonth(f)) = 1
        /\ all_files # {} => final_files_to_keep # {}

(***************************************************************************)
(* Names with an empty slug, as the claims state them                      *)
(***************************************************************************)
\* parse_filename of the two names with an empty slug
EmptySlugJson == parse_filename("-desktop-2024-01-15-093000.json")

EmptySlugReport == parse_filename("comparison-report--2024-01-15-0930.html")

\* The files of the tree whose name matches a grammar with an empty slug
EmptySlugPaths ==
    {path \in PathPool : Parsed(path) # NoMatch /\ Parsed(path).slug = ""}

\* C29: parse_filename returns a name that matches a grammar with an empty
\* slug with the slug '', its strategy and its timestamp; the scanner's test
\* rejects the result, so that a file of such a name is never a recognized
\* artifact, a candidate, or in the keep-set or the prune-set, and no step of
\* a run removes it
C29_EmptySlugIgnored ==
    /\ [](/\ EmptySlugJson = [slug |-> "", strategy |-> "desktop",
                              timestamp |-> DateTimeOf(<<2024, 1, 15>>, 93000)]
          /\ EmptySlugReport = [slug |-> "", strategy |-> "report",
                                timestamp |-> DateTimeOf(<<2024, 1, 15>>, 93000)]
          /\ ~AllTruthy(EmptySlugJson) /\ ~AllTruthy(EmptySlugReport)
          /\ \A path \in EmptySlugPaths :
                /\ ~IsArtifact(path)
                /\ path \notin all_files \cup files_to_keep \cup final_files_to_keep
                /\ path \notin files_to_prune \cup pending)
    /\ [][\A path \in EmptySlugPaths \cap disk :
            path \notin disk' => interference' = interference + 1]_vars

\* A real run that has returned and has removed a file, over a directory
\* with a file whose name has an empty slug, which is still there
C29_Witness ==
    /\ Completed /\ ~args.dry_run
    /\ \E f \in files_to_prune : f \notin disk /\ (Removed(f) \/ ArchivedAndRemoved(f))
    /\ EmptySlugPaths \cap disk # {}

(***************************************************************************)
(* organise_files, as the claims state it                                  *)
(***************************************************************************)
\* The lines that report a rename
Renames == {line \in out : line.msg = "renamed"}

\* The file holds the three values, and its fetchTime is a time
Renamable(data) ==
    /\ data.json
    /\ "" \notin {data.requestedUrl, data.emulatedFormFactor, data.fetchTime}
    /\ sanitise_timestamp(data.fetchTime) # ""

\* The canonical name of the file at path, in its directory
CanonicalPath(path) == with_name(path, NewFilename(tree[path]))

\* A step leaves the number of files as it is, leaves every file it does not
\* rename as it is, and renames a file only to its canonical name in its own
\* directory and only when no file has that name; a step that skips a file
\* because the name exists changes nothing, and the file and the file of that
\* name are both there
RenameFrame ==
    /\ Cardinality(DOMAIN tree') = Cardinality(DOMAIN tree)
    /\ \A path \in DOMAIN tree \cap DOMAIN tree' : tree'[path] = tree[path]
    /\ \A new_path \in DOMAIN tree' \ DOMAIN tree :
          \E old_path \in DOMAIN tree \ DOMAIN tree' :
              /\ tree'[new_path] = tree[old_path]
              /\ dirname(new_path) = dirname(old_path)
              /\ basename(new_path) = NewFilename(tree[old_path])
    /\ \A line \in out' \ out :
          line.msg = "already exists" =>
              /\ tree' = tree
              /\ {line.old, line.new} \subseteq DOMAIN tree /\ line.old # line.new

\* No two files are renamed to one name, and no run renames a file that a
\* run before has renamed
RenameHistory ==
    /\ \A first \in Renames, second \in Renames :
          first.new = second.new => first = second
    /\ \A first \in Renames, second \in Renames :
          first.run < second.run => second.old # first.new

\* A step renames a file only if it is the first file of the run with its
\* canonical name: every other file with that canonical name is one the loop
\* has yet to take
FirstIsRenamed ==
    \A line \in out' \ out :
        line.msg = "renamed" =>
            \A path \in DOMAIN tree \ {line.old} :
                (Renamable(tree[path]) /\ CanonicalPath(path) = line.new) =>
                    path \in Range(json_files)

\* C30, as stated: organise_files loses no file, renames a file only to a
\* name no file has, and of several files of a directory with one canonical
\* name renames the first of the run and skips the others; and no run
\* renames a file that a run before has renamed
C30_OnlyFirstRenamed ==
    /\ [][RenameFrame /\ FirstIsRenamed]_vars
    /\ []RenameHistory

\* C30, amended: organise_files loses no file and renames a file only to a
\* name no file has; of several files of a directory with one canonical name
\* at most one is renamed, and the ones skipped stay as they are; and no run
\* renames a file that a run before has renamed
C30_OrganiseLosesNoFile ==
    /\ [][RenameFrame]_vars
    /\ []RenameHistory

\* Two runs that have returned: the first renamed one of two files that map
\* to one canonical name and skipped the other, and the second run skipped
\* that one again
C30_Witness ==
    /\ run = 2 /\ pc = "done"
    /\ \E first \in Renames, skipped \in out, again \in out :
          /\ first.run = 1
          /\ skipped.msg = "already exists" /\ skipped.run = 1
          /\ skipped.new = first.new
          /\ tree[skipped.old] = tree[first.new]
          /\ again.msg = "already exists" /\ again.run = 2
          /\ again.old = skipped.old

=============================================================================
